---------------------------- MODULE Spec2Model ----------------------------
(***************************************************************************)
(* A model of asboostreg.SparseAdditiveBoostingRegressor: construction     *)
(* (attrs converters and validators), fit (the mRMR selection and boosting *)
(* loop with early stopping, then aggregation and bias correction) and the *)
(* guarded post-fit operations.                                            *)
(*                                                                         *)
(* Numbers.  Array values (data, residuals, scores) are integers: the      *)
(* number format of the model rounds every quotient down (\div), as the    *)
(* float32/float64 arithmetic of the program rounds to its own grid.       *)
(* Real-valued constructor arguments and the uniform draws of the          *)
(* generator are counted in quarters: 2 stands for 0.5 and 4 for 1.0.      *)
(***************************************************************************)
EXTENDS Integers, Sequences, FiniteSets, TLC

VARIABLES
    alive,                   \* an instance exists (the constructor returned)
    hyper,                   \* the attrs fields n_estimators .. min_samples_leaf
    feature_names_in_,       \* <<>> for None, else the array of names
    _random_generator,       \* [seed, draws]: the stream and its position
    _is_fitted,
    selection_history_,
    score_history_,
    selection_count_,
    regressors_,
    intercept_,
    _selected_count_matrix,
    _regressors,
    _indexing_cache,
    _m,
    _n,
    pc,                      \* where the running fit call stands; "idle" outside fit
    frame,                   \* the locals of the running fit call
    last_call,               \* the operation called last
    ret,                     \* what it returned or raised
    ghost                    \* history kept for the properties, read by no action

instance_vars ==
    <<hyper, feature_names_in_, _random_generator, _is_fitted, selection_history_,
      score_history_, selection_count_, regressors_, intercept_,
      _selected_count_matrix, _regressors, _indexing_cache, _m, _n>>

vars == <<alive, instance_vars, pc, frame, last_call, ret, ghost>>

-----------------------------------------------------------------------------
(* Bounds of the model. *)

MaxEstimators == 4
MaxNoChange == 2

-----------------------------------------------------------------------------
(* Values. *)

\* None, and an attribute that was never assigned (attrs init=False, no default).
None == <<>>
\* A cell of np.empty that nothing wrote yet; its content is whatever the memory held.
Uninit == 0 - 999
\* The float NaN (np.sqrt of a negative number, warnings suppressed).
NaN == 0 - 998
\* What an uninitialized float cell may hold when it is read.
GarbageFloats == {0 - 1, 9}

Abs(v) == IF v < 0 THEN 0 - v ELSE v

RECURSIVE SumSeq(_)
SumSeq(s) == IF s = <<>> THEN 0 ELSE Head(s) + SumSeq(Tail(s))

\* np.mean of a non-empty array
Mean(s) == SumSeq(s) \div Len(s)

Square(s) == [i \in 1..Len(s) |-> s[i] * s[i]]

RECURSIVE ISqrtFrom(_, _)
ISqrtFrom(v, r) == IF (r + 1) * (r + 1) > v THEN r ELSE ISqrtFrom(v, r + 1)

\* np.sqrt on one float: NaN stays NaN, a negative gives NaN (the warning is ignored)
SqrtBody(v) == IF v = NaN \/ v < 0 THEN NaN ELSE ISqrtFrom(v, 0)
Sqrt(v) == SqrtBody(v)

-----------------------------------------------------------------------------
(* Construction: attrs runs each field's converter, then its validators.    *)

\* converter=int: Python's int() cuts toward zero (the argument is in quarters)
IntConverter(q) == IF q >= 0 THEN q \div 4 ELSE 0 - ((0 - q) \div 4)
\* converter=float keeps the value (still in quarters)
FloatConverter(q) == q

Convert(args) ==
    [n_estimators        |-> IntConverter(args.n_estimators),
     learning_rate       |-> FloatConverter(args.learning_rate),
     random_state        |-> args.random_state,
     row_subsample       |-> FloatConverter(args.row_subsample),
     validation_fraction |-> FloatConverter(args.validation_fraction),
     n_iter_no_change    |-> IntConverter(args.n_iter_no_change),
     max_bins            |-> IntConverter(args.max_bins),
     max_depth           |-> IntConverter(args.max_depth),
     l2_regularization   |-> FloatConverter(args.l2_regularization),
     min_samples_split   |-> IntConverter(args.min_samples_split),
     min_samples_leaf    |-> IntConverter(args.min_samples_leaf)]

\* validators gt(0.0) and le(1.0) on a float field in quarters
UnitIntervalMut(q) == q >= 0 /\ q <= 4
UnitInterval(q) == q > 0 /\ q <= 4

\* the validators of lines 108-148, on the converted values
ValidatorsPass(c) ==
    /\ c.n_estimators >= 1
    /\ UnitInterval(c.learning_rate)
    /\ UnitInterval(c.row_subsample)
    /\ UnitInterval(c.validation_fraction)
    /\ c.n_iter_no_change >= 1
    /\ c.max_bins > 0
    /\ c.max_depth >= 1
    /\ c.l2_regularization > 0
    /\ c.min_samples_split >= 2
    /\ c.min_samples_leaf >= 1

\* np.random.default_rng(random_state) raises ValueError on a negative seed
SeedAccepted(random_state) == random_state = None \/ random_state[1] >= 0

\* the seed of the stream: random_state, or fresh OS entropy when it is None
SeedOfMut(random_state, entropy) == entropy
SeedOf(random_state, entropy) ==
    IF random_state = None THEN entropy ELSE random_state[1]

\* the seeds OS entropy may give
EntropySeeds == {0, 1}

_is_fitted_default == FALSE


-----------------------------------------------------------------------------
(* Arrays.  A matrix is a sequence of rows; features are numbered 1..n here *)
(* (0..n-1 in the program) and boosting rounds 0..n_estimators-1 as in the  *)
(* program, round t being row t+1 of the histories.                         *)

Column(X, f) == [i \in 1..Len(X) |-> X[i][f]]
Width(X) == Len(X[1])
Plus(a, b) == [i \in 1..Len(a) |-> a[i] + b[i]]
Minus(a, b) == [i \in 1..Len(a) |-> a[i] - b[i]]
Take(s, k) == [i \in 1..(IF k < Len(s) THEN k ELSE Len(s)) |-> s[i]]
Zeros(n) == [i \in 1..n |-> [j \in 1..n |-> 0]]

\* a[mask]: the entries of a at the positions where the boolean mask is true
RECURSIVE Masked(_, _)
Masked(a, mask) ==
    IF a = <<>> THEN <<>>
    ELSE IF Head(mask) THEN <<Head(a)>> \o Masked(Tail(a), Tail(mask))
         ELSE Masked(Tail(a), Tail(mask))

\* np.argsort(column): the positions in ascending order of value (ties in row order)
RECURSIVE InsertByValue(_, _, _)
InsertByValue(column, sorted, i) ==
    IF sorted = <<>> THEN <<i>>
    ELSE IF column[Head(sorted)] <= column[i]
         THEN <<Head(sorted)>> \o InsertByValue(column, Tail(sorted), i)
         ELSE <<i>> \o sorted

RECURSIVE ArgsortUpTo(_, _)
ArgsortUpTo(column, k) ==
    IF k = 0 THEN <<>> ELSE InsertByValue(column, ArgsortUpTo(column, k - 1), k)

ArgsortDescending(column) ==
    [j \in 1..Len(column) |-> ArgsortUpTo(column, Len(column))[Len(column) + 1 - j]]
Argsort(column) == ArgsortUpTo(column, Len(column))

\* a[index]: fancy indexing by an array of positions
Gather(a, index) == [j \in 1..Len(index) |-> a[index[j]]]

\* np.argmax: the first position holding the maximum
Argmax(score) ==
    CHOOSE f \in 1..Len(score) :
        /\ \A g \in 1..Len(score) : score[g] <= score[f]
        /\ \A g \in 1..(f - 1) : score[g] < score[f]

-----------------------------------------------------------------------------
(* The collaborators of model_helpers and of the libraries, which fit only  *)
(* calls: each is a deterministic function of its arguments.                *)

\* TreePreprocessor.transform: one bin per value, the top bin taking the rest
Transform(X, max_bins) ==
    [i \in 1..Len(X) |->
        [f \in 1..Len(X[i]) |-> IF X[i][f] >= max_bins THEN max_bins - 1 ELSE X[i][f]]]

\* m times the centred column: the column's deviation from its mean, kept integral
Centred(X, f) ==
    LET col == Column(X, f)
    IN  [i \in 1..Len(col) |-> Len(col) * col[i] - SumSeq(col)]

Dot(a, b) == SumSeq([i \in 1..Len(a) |-> a[i] * b[i]])

\* relevancy_scorer (f_regression_score): how strongly each column follows the residual
RelevancyScorer(X, residual) ==
    [f \in 1..Width(X) |-> Abs(Dot(Centred(X, f), residual))]

\* redundancy_matrix (absolute_correlation_matrix): how strongly two columns follow each other
RedundancyMatrix(X) ==
    [i \in 1..Width(X) |->
        [j \in 1..Width(X) |-> Abs(Dot(Centred(X, i), Centred(X, j)))]]

\* mrmr_scheme (np.subtract): relevancy - redundancy, a scalar redundancy broadcast
MrmrScheme(relevancy, redundancy) ==
    [f \in 1..Len(relevancy) |-> relevancy[f] - redundancy[f]]

\* the bins of a preprocessed column
Bins(max_bins) == 0..(max_bins - 1)

\* ListTreeRegressor(...).fit(xs, ys): a leaf per bin holding the shrunk mean of the
\* residuals that fell in it, 0 where none did
ListTreeRegressorFit(xs, ys, learning_rate, max_bins) ==
    [b \in Bins(max_bins) |->
        LET at == {j \in 1..Len(xs) : xs[j] = b}
            hit == Masked(ys, [j \in 1..Len(xs) |-> j \in at])
        IN  IF at = {} THEN 0 ELSE (learning_rate * Mean(hit)) \div 4]

\* ListTreeRegressor.predict(values)
TreePredict(leaf, values) == [i \in 1..Len(values) |-> leaf[values[i]]]

RECURSIVE SumLeaves(_, _)
SumLeaves(trees, b) ==
    IF trees = <<>> THEN 0 ELSE Head(trees)[b] + SumLeaves(Tail(trees), b)

\* sum_tree_regressors(estimators, name, output_name): the composite of one feature
SumTreeRegressors(trees, max_bins) ==
    [leaf        |-> [b \in Bins(max_bins) |-> SumLeaves(trees, b)],
     is_selected |-> trees # <<>>]

\* regressor.fix_bias(column): the mean it removes, and the regressor afterwards
RemovedMean(regressor, column) == Mean(TreePredict(regressor.leaf, column))
BiasFixed(regressor, column) ==
    [regressor EXCEPT !.leaf =
        [b \in DOMAIN regressor.leaf |-> regressor.leaf[b] - RemovedMean(regressor, column)]]

\* Generator.random(m): the m uniform values of draw number k of the stream, in quarters
Uniform(seed, k, i) == (5 * seed + 3 * k + 2 * i + k * i) % 4
GeneratorRandom(seed, k, m) == [i \in 1..m |-> Uniform(seed, k, i)]

\* train_test_split(X, y, test_size, random_state): the rows shuffled by the seed, the
\* first ceil(test_size * m) of them held out
TestCount(m, validation_fraction) == (m * validation_fraction + 3) \div 4
Shuffled(m, offset) == [i \in 1..m |-> ((i - 1 + offset) % m) + 1]
TrainTestSplit(X, y, validation_fraction, offset) ==
    LET m     == Len(X)
        order == Shuffled(m, offset)
        k     == TestCount(m, validation_fraction)
        test  == [i \in 1..k |-> order[i]]
        train == [i \in 1..(m - k) |-> order[k + i]]
    IN  [X |-> Gather(X, train), y |-> Gather(y, train),
         X_val |-> Gather(X, test), y_val |-> Gather(y, test)]

-----------------------------------------------------------------------------
(* The constructor (the attrs-generated __init__ and the default factories). *)

HistoryDefault(n_estimators) == [t \in 1..n_estimators |-> Uninit]
ScoreHistoryDefault(n_estimators) == [t \in 1..n_estimators |-> <<Uninit, Uninit>>]

\* the attributes of a new instance; those declared init=False with no default stay unset
NewInstance(args, entropy) ==
    LET c == Convert(args)
    IN  [hyper                 |-> c,
         feature_names_in_     |-> None,
         random_generator      |-> [seed |-> SeedOf(c.random_state, entropy), draws |-> 0],
         is_fitted             |-> _is_fitted_default,
         selection_history_    |-> HistoryDefault(c.n_estimators),
         score_history_        |-> ScoreHistoryDefault(c.n_estimators)]

\* __init__ raises: a validator's ValueError, or default_rng's
ConstructorRaises(args) ==
    \/ ~ValidatorsPass(Convert(args))
    \/ ~SeedAccepted(args.random_state)

NoGhost ==
    [args |-> <<>>, fit_calls |-> 1, fits_begun |-> 0, ever_completed |-> FALSE, outcome |-> "none",
     n_start |-> 0, rounds |-> <<>>, data |-> <<>>, twin |-> <<>>, query |-> <<>>,
     draws_start |-> 0, intercept_writes |-> 0, target_mean |-> 0,
     fix_bias_calls |-> {}, removed |-> <<>>]

\* no instance: what Init of the construction specification and a failed __init__ leave
NoInstance ==
    /\ alive = FALSE
    /\ hyper = None /\ feature_names_in_ = None /\ _random_generator = None
    /\ _is_fitted = FALSE /\ selection_history_ = None /\ score_history_ = None
    /\ selection_count_ = None /\ regressors_ = None /\ intercept_ = None
    /\ _selected_count_matrix = None /\ _regressors = None /\ _indexing_cache = None
    /\ _m = None /\ _n = None
    /\ pc = "idle" /\ frame = None

InitInstance(args, entropy, fit_calls) ==
    LET new == NewInstance(args, entropy)
    IN  /\ alive = TRUE
        /\ hyper = new.hyper
        /\ feature_names_in_ = new.feature_names_in_
        /\ _random_generator = new.random_generator
        /\ _is_fitted = new.is_fitted
        /\ selection_history_ = new.selection_history_
        /\ score_history_ = new.score_history_
        /\ selection_count_ = None /\ regressors_ = None /\ intercept_ = None
        /\ _selected_count_matrix = None /\ _regressors = None /\ _indexing_cache = None
        /\ _m = None /\ _n = None
        /\ pc = "idle" /\ frame = None
        /\ last_call = "__init__" /\ ret = <<"return">>
        /\ ghost = [NoGhost EXCEPT !.args = <<args>>, !.fit_calls = fit_calls]

\* SparseAdditiveBoostingRegressor(**args), called once
Construct(args, entropy) ==
    /\ ~alive /\ ghost.args = <<>>
    /\ last_call' = "__init__"
    /\ ghost' = [ghost EXCEPT !.args = <<args>>]
    /\ UNCHANGED <<pc, frame>>
    /\ IF ConstructorRaises(args)
       THEN /\ ret' = <<"ValueError">>
            /\ UNCHANGED <<alive, instance_vars>>
       ELSE LET new == NewInstance(args, entropy)
            IN  /\ ret' = <<"return">>
                /\ alive' = TRUE
                /\ hyper' = new.hyper
                /\ feature_names_in_' = new.feature_names_in_
                /\ _random_generator' = new.random_generator
                /\ _is_fitted' = new.is_fitted
                /\ selection_history_' = new.selection_history_
                /\ score_history_' = new.score_history_
                /\ UNCHANGED <<selection_count_, regressors_, intercept_,
                               _selected_count_matrix, _regressors, _indexing_cache,
                               _m, _n>>

\* the raw constructor arguments tried (quarters): in range, on the edge and outside
WideArgs ==
    [n_estimators        : {3, 4, 8},
     learning_rate       : {0, 4, 5},
     random_state        : {None, <<0 - 1>>, <<0>>},
     row_subsample       : {0, 2, 5},
     validation_fraction : {0, 4, 5},
     n_iter_no_change    : {0, 4},
     max_bins            : {0, 2, 4},
     max_depth           : {3, 4},
     l2_regularization   : {0, 1},
     min_samples_split   : {7, 8},
     min_samples_leaf    : {0, 4}]

\* the arguments of the instances whose fit is explored
MainArgs ==
    [n_estimators        : {4 * N : N \in 1..MaxEstimators},
     learning_rate       : {2},
     random_state        : {None, <<0>>},
     row_subsample       : {2},
     validation_fraction : {2},
     n_iter_no_change    : {4 * k : k \in 1..MaxNoChange},
     max_bins            : {8},
     max_depth           : {8},
     l2_regularization   : {1},
     min_samples_split   : {8},
     min_samples_leaf    : {4}]

\* the arguments of the instances that are fitted twice
RefitArgs ==
    [n_estimators        : {4, 8, 12},
     learning_rate       : {2},
     random_state        : {<<0>>},
     row_subsample       : {2},
     validation_fraction : {2},
     n_iter_no_change    : {4, 8},
     max_bins            : {8},
     max_depth           : {8},
     l2_regularization   : {1},
     min_samples_split   : {8},
     min_samples_leaf    : {4}]

-----------------------------------------------------------------------------
(* The data fit is called with: X, y and validation_set, which is None or   *)
(* the pair (X_val, y_val).                                                 *)

TwoFeatures == << <<0, 0>>, <<0, 1>>, <<2, 0>>, <<1, 1>> >>
OneFeature == << <<0>>, <<1>>, <<2>>, <<0>> >>
\* two features that move together and a third that moves on its own
ThreeFeatures == << <<0, 0, 0>>, <<0, 0, 1>>, <<1, 1, 0>>, <<1, 1, 1>> >>

Datasets ==
    {[X |-> TwoFeatures, y |-> y, validation_set |-> v] :
        y \in {<<0, 8, 0, 8>>, <<0, 4, 8, 12>>},
        v \in {None,
               << << <<0, 1>>, <<1, 0>> >>, <<0, 8>> >>,
               << << <<0, 1>>, <<1, 0>> >>, <<8, 4>> >>}}
    \cup
    {[X |-> OneFeature, y |-> <<0, 8, 4, 0>>, validation_set |-> v] :
        v \in {None, << << <<1>>, <<0>> >>, <<0, 8>> >>}}
    \cup
    {[X |-> ThreeFeatures, y |-> <<0, 2, 8, 12>>,
      validation_set |-> << << <<0, 1, 0>>, <<1, 0, 1>> >>, <<0, 8>> >>]}

\* the inputs predict, contribution_frame and explain are called with
QueryInputs(n) ==
    IF n = 1 THEN {<< <<0>>, <<2>> >>}
    ELSE IF n = 2 THEN {<< <<0, 1>>, <<1, 1>> >>}
    ELSE {<< <<0, 1, 0>>, <<1, 1, 1>> >>}

-----------------------------------------------------------------------------
(* fit, lines 218-233 and 276-278: the split, _initialize_fit_params, the    *)
(* preprocessing and the first lines of _fit.                               *)

\* the shuffle train_test_split makes of m rows: fixed by an integer random_state,
\* drawn from the global generator when random_state is None
SplitOffsets(random_state, m) ==
    IF random_state = None THEN 0..(m - 1) ELSE {random_state[1] % m}

\* X, y, X_val, y_val as lines 218-223 leave them
FitParts(data, offset) ==
    IF data.validation_set = None
    THEN TrainTestSplit(data.X, data.y, hyper.validation_fraction, offset)
    ELSE [X |-> data.X, y |-> data.y,
          X_val |-> data.validation_set[1], y_val |-> data.validation_set[2]]

\* train_test_split raises when a side of the split would be empty
SplitRaises(data) ==
    /\ data.validation_set = None
    /\ \/ TestCount(Len(data.X), hyper.validation_fraction) = 0
       \/ TestCount(Len(data.X), hyper.validation_fraction) = Len(data.X)

FeatureName(i) == <<"feature_0", "feature_1", "feature_2", "feature_3">>[i]

\* the feature names _initialize_fit_params leaves: those already there, else synthetic
NamesAfterInit(names, n) ==
    IF names = None THEN [i \in 1..n |-> FeatureName(i)] ELSE names

EmptyLists(n) == [i \in 1..n |-> <<>>]
ZeroCountMatrix(n) == Zeros(n)
EmptyCacheKept(n) ==
    [i \in 1..n |-> IF _indexing_cache # None /\ i <= Len(_indexing_cache)
                    THEN _indexing_cache[i] ELSE None]
EmptyCache(n) == [i \in 1..n |-> None]

\* the data the compared second model must be fitted on: that of the first
SameDataAsTwin(data) ==
    IF ghost.twin = <<>> \/ ghost.fits_begun > 0 THEN TRUE ELSE ghost.twin[1].data = data

FitBegin(data, offset) ==
    /\ alive /\ pc = "idle"
    /\ ghost.fits_begun < ghost.fit_calls
    /\ SameDataAsTwin(data)
    /\ ~SplitRaises(data)
    /\ LET parts == FitParts(data, offset)
           n     == Width(parts.X)
           X     == Transform(parts.X, hyper.max_bins)
           X_val == Transform(parts.X_val, hyper.max_bins)
           mean  == Mean(parts.y)
       IN  /\ _m' = Len(parts.X)
           /\ _n' = n
           /\ feature_names_in_' = NamesAfterInit(feature_names_in_, n)
           /\ _regressors' = EmptyLists(n)
           /\ _selected_count_matrix' = ZeroCountMatrix(n)
           /\ _indexing_cache' = EmptyCache(n)
           /\ intercept_' = mean
           /\ frame' = [X |-> X, X_val |-> X_val,
                        residual |-> [i \in 1..Len(parts.y) |-> parts.y[i] - mean],
                        residual_valid |-> [i \in 1..Len(parts.y_val) |-> parts.y_val[i] - mean],
                        y |-> parts.y, y_val |-> parts.y_val,
                        model_count |-> 0]
    /\ pc' = "boost"
    /\ last_call' = "fit"
    /\ ret' = <<"running">>
    /\ ghost' = [ghost EXCEPT !.fits_begun = @ + 1, !.outcome = "running",
                              !.n_start = hyper.n_estimators, !.rounds = <<>>,
                              !.data = IF ghost.fits_begun = 0 THEN <<data>> ELSE @,
                              !.query = <<>>,
                              !.draws_start = _random_generator.draws,
                              !.intercept_writes = 1,
                              !.target_mean = Mean(FitParts(data, offset).y),
                              !.fix_bias_calls = {}, !.removed = <<>>]
    /\ UNCHANGED <<alive, hyper, _random_generator, _is_fitted, selection_history_,
                   score_history_, selection_count_, regressors_>>

\* fit raises before the first round: train_test_split refuses the split (nothing is
\* written yet), or the preprocessor fails (after _initialize_fit_params)
FitBeginRaises(data, offset) ==
    /\ alive /\ pc = "idle"
    /\ ghost.fits_begun < ghost.fit_calls
    /\ SameDataAsTwin(data)
    /\ IF SplitRaises(data)
       THEN UNCHANGED <<_m, _n, feature_names_in_, _regressors, _selected_count_matrix,
                        _indexing_cache>>
       ELSE LET parts == FitParts(data, offset)
                n     == Width(parts.X)
            IN  /\ _m' = Len(parts.X)
                /\ _n' = n
                /\ feature_names_in_' = NamesAfterInit(feature_names_in_, n)
                /\ _regressors' = EmptyLists(n)
                /\ _selected_count_matrix' = ZeroCountMatrix(n)
                /\ _indexing_cache' = EmptyCache(n)
    /\ pc' = "idle"
    /\ frame' = None
    /\ last_call' = "fit"
    /\ ret' = <<"Error">>
    /\ ghost' = [ghost EXCEPT !.fits_begun = @ + 1, !.outcome = "aborted",
                              !.n_start = hyper.n_estimators, !.rounds = <<>>,
                              !.data = IF ghost.fits_begun = 0 THEN <<data>> ELSE @,
                              !.query = <<>>,
                              !.draws_start = _random_generator.draws,
                              !.intercept_writes = 0, !.target_mean = 0,
                              !.fix_bias_calls = {}, !.removed = <<>>]
    /\ UNCHANGED <<alive, hyper, _random_generator, _is_fitted, selection_history_,
                   score_history_, selection_count_, regressors_, intercept_>>

-----------------------------------------------------------------------------
(* One boosting round: the loop body of _fit (lines 285-296; round 0 is     *)
(* line 280) with its call of _boost (lines 309-346).                       *)

\* lines 286-288: the redundancy of each feature before round t >= 1; round 0 is
\* called with the scalar 0.0, which np.subtract broadcasts
RedundancyUnscaled(redundancy_matrix, count_matrix, t) ==
    [i \in 1..Len(redundancy_matrix) |->
        IF t = 0 THEN 0
        ELSE SumSeq([j \in 1..Len(redundancy_matrix) |->
                        redundancy_matrix[i][j] * count_matrix[i][j]])]
Redundancy(redundancy_matrix, count_matrix, t) ==
    [i \in 1..Len(redundancy_matrix) |->
        IF t = 0 THEN 0
        ELSE SumSeq([j \in 1..Len(redundancy_matrix) |->
                        redundancy_matrix[i][j] * count_matrix[i][j]]) \div t]

\* lines 314-318: 1.0 is added along row f and along column f, then (f, f) is reset
CountUpdateRowOnly(C, f) ==
    [i \in 1..Len(C) |-> [j \in 1..Len(C) |->
        IF i = f /\ j = f THEN 0 ELSE C[i][j] + (IF i = f THEN 1 ELSE 0)]]
CountUpdateNoReset(C, f) ==
    [i \in 1..Len(C) |-> [j \in 1..Len(C) |->
        C[i][j] + (IF i = f THEN 1 ELSE 0) + (IF j = f THEN 1 ELSE 0)]]
CountUpdate(C, f) ==
    [i \in 1..Len(C) |-> [j \in 1..Len(C) |->
        IF i = f /\ j = f THEN 0
        ELSE C[i][j] + (IF i = f THEN 1 ELSE 0) + (IF j = f THEN 1 ELSE 0)]]

\* _get_index, lines 350-352: the cache after the lookup of one feature
CacheAfterLookup(cache, X, f) ==
    IF cache[f] = None THEN [cache EXCEPT ![f] = Argsort(Column(X, f))] ELSE cache

\* line 325: one call of random(m) moves the generator on by one draw
AdvancedTwice(generator) == [generator EXCEPT !.draws = @ + 2]
Advanced(generator) == [generator EXCEPT !.draws = @ + 1]

\* line 325: random(m) <= row_subsample
SelectedRowsStrict(draw, row_subsample) == [i \in 1..Len(draw) |-> draw[i] < row_subsample]
SelectedRows(draw, row_subsample) == [i \in 1..Len(draw) |-> draw[i] <= row_subsample]

\* lines 290-294 after round t: the validation scores of rounds t-k .. t-1 never fall
NoImprovementUnguarded(scores, t, k) ==
    \A u \in (t - k)..(t - 2) : u < 0 \/ scores[u + 2][2] - scores[u + 1][2] >= 0
NoImprovement(scores, t, k) ==
    /\ t >= k
    /\ \A u \in (t - k)..(t - 2) : scores[u + 2][2] - scores[u + 1][2] >= 0

\* line 346: self._regressors[selected_feature].append(new_model)
AppendedOverwrite(lists, f, new_model) == [lists EXCEPT ![f] = <<new_model>>]
Appended(lists, f, new_model) == [lists EXCEPT ![f] = Append(@, new_model)]

\* _boost(X, residual, redundancy, t, X_val, residual_valid): everything it writes
Boost(t) ==
    LET X         == frame.X
        relevancy == RelevancyScorer(X, frame.residual)
        redundancy == Redundancy(RedundancyMatrix(X), _selected_count_matrix, t)
        score     == MrmrScheme(relevancy, redundancy)
        f         == Argmax(score)
        X_sel     == Column(X, f)
        cache     == CacheAfterLookup(_indexing_cache, X, f)
        index     == cache[f]
        X_sorted  == Gather(X_sel, index)
        y_sorted  == Gather(frame.residual, index)
        draw      == GeneratorRandom(_random_generator.seed, _random_generator.draws, _m)
        rows      == SelectedRows(draw, hyper.row_subsample)
        new_model == ListTreeRegressorFit(Masked(X_sorted, rows), Masked(y_sorted, rows),
                                          hyper.learning_rate, hyper.max_bins)
        y         == Minus(frame.residual, TreePredict(new_model, X_sel))
        y_val     == Minus(frame.residual_valid,
                           TreePredict(new_model, Column(frame.X_val, f)))
    IN  [selected_feature |-> f,
         relevancy |-> relevancy,
         redundancy |-> redundancy,
         index |-> index,
         draw |-> draw,
         fit_rows |-> Masked(index, rows),
         selection_history |-> [selection_history_ EXCEPT ![t + 1] = f],
         count_matrix |-> CountUpdate(_selected_count_matrix, f),
         cache |-> cache,
         generator |-> Advanced(_random_generator),
         fit_X |-> Masked(X_sorted, rows),
         fit_y |-> Masked(y_sorted, rows),
         new_model |-> new_model,
         residual |-> y,
         residual_valid |-> y_val,
         scores |-> <<Mean(Square(y)), Mean(Square(y_val))>>,
         score_history |-> [score_history_ EXCEPT
                               ![t + 1] = <<Mean(Square(y)), Mean(Square(y_val))>>],
         regressors |-> Appended(_regressors, f, new_model)]

\* line 295: the estimator count an early stop after round model_count leaves
StoppedOneShort(model_count) == model_count
StoppedEstimators(model_count) == model_count + 1

BoostRound ==
    /\ pc = "boost"
    /\ LET t    == frame.model_count
           b    == Boost(t)
           stop == t >= 1 /\ NoImprovement(b.score_history, t, hyper.n_iter_no_change)
       IN  /\ selection_history_' = b.selection_history
           /\ _selected_count_matrix' = b.count_matrix
           /\ _indexing_cache' = b.cache
           /\ _random_generator' = b.generator
           /\ _regressors' = b.regressors
           /\ score_history_' = b.score_history
           /\ frame' = [frame EXCEPT !.residual = b.residual,
                                     !.residual_valid = b.residual_valid,
                                     !.model_count = t + 1]
           /\ hyper' = IF stop THEN [hyper EXCEPT !.n_estimators = StoppedEstimators(t)] ELSE hyper
           /\ pc' = IF stop \/ t + 1 >= hyper.n_estimators THEN "finalize" ELSE "boost"
           /\ ghost' = [ghost EXCEPT !.rounds =
                           Append(@, [feature |-> b.selected_feature, scores |-> b.scores,
                                      fit_X |-> b.fit_X, fit_y |-> b.fit_y,
                                      fit_rows |-> b.fit_rows,
                                      draw_index |-> _random_generator.draws,
                                      draw |-> b.draw, index |-> b.index,
                                      relevancy |-> b.relevancy,
                                      redundancy |-> b.redundancy,
                                      count_in |-> _selected_count_matrix,
                                      residual_in |-> frame.residual])]
    /\ UNCHANGED <<alive, feature_names_in_, _is_fitted, selection_count_, regressors_,
                   intercept_, _m, _n, last_call, ret>>

\* a round in which a collaborator raises: the relevancy scorer or the redundancy
\* builder (nothing of the round is written yet), or the weak learner's fit (the
\* selection, the counts, the cache and the draw of the round are already written)
BoostRaises(in_learner) ==
    /\ pc = "boost"
    /\ LET t == frame.model_count
           b == Boost(t)
       IN  IF in_learner
           THEN /\ selection_history_' = b.selection_history
                /\ _selected_count_matrix' = b.count_matrix
                /\ _indexing_cache' = b.cache
                /\ _random_generator' = b.generator
           ELSE UNCHANGED <<selection_history_, _selected_count_matrix, _indexing_cache,
                            _random_generator>>
    /\ pc' = "idle"
    /\ frame' = None
    /\ ret' = <<"Error">>
    /\ ghost' = [ghost EXCEPT !.outcome = "aborted"]
    /\ UNCHANGED <<alive, hyper, feature_names_in_, _is_fitted, score_history_,
                   selection_count_, regressors_, intercept_, _regressors, _m, _n,
                   last_call>>

-----------------------------------------------------------------------------
(* The end of fit, lines 236-255.                                           *)

\* lines 236-239: zip(self._regressors, self.feature_names_in_) stops at the shorter
Composites(lists, names, max_bins) ==
    [i \in 1..(IF Len(names) < Len(lists) THEN Len(names) ELSE Len(lists)) |->
        SumTreeRegressors(lists[i], max_bins)]

\* line 247
Truncated(history, n_estimators) == Take(history, n_estimators)

\* line 250: np.sqrt over the whole array, in place.  A cell no round wrote still holds
\* what the memory np.empty returned held: garbage, the same value in every such cell
SqrtInPlaceTwice(scores, garbage) ==
    [r \in 1..Len(scores) |-> [c \in 1..2 |->
        Sqrt(Sqrt(IF scores[r][c] = Uninit THEN garbage ELSE scores[r][c]))]]
SqrtInPlace(scores, garbage) ==
    [r \in 1..Len(scores) |-> [c \in 1..2 |->
        Sqrt(IF scores[r][c] = Uninit THEN garbage ELSE scores[r][c])]]

\* the values the unwritten cells may read as: one only when there is no such cell
GarbageOf(scores) ==
    IF \E r \in 1..Len(scores), c \in 1..2 : scores[r][c] = Uninit
    THEN GarbageFloats ELSE {9}

\* lines 251-253: collections.Counter(self.feature_names_in_[self.selection_history_])
Counter(names, history) ==
    [name \in {names[history[t]] : t \in 1..Len(history)} |->
        Cardinality({t \in 1..Len(history) : names[history[t]] = name})]

\* indexing the names by the history raises IndexError past the end of the names
CounterRaises(names, history) == \E t \in 1..Len(history) : history[t] > Len(names)

\* lines 242-243: the composites fix_bias is called on, every one of them
FixBiasOnSelectedOnly(composites) == {i \in 1..Len(composites) : composites[i].is_selected}
FixBiasTargets(composites) == 1..Len(composites)

\* what lines 236-245 compute: the composites, those corrected, the means they return
Aggregated ==
    LET composites == Composites(_regressors, feature_names_in_, hyper.max_bins)
        targets    == FixBiasTargets(composites)
    IN  [targets    |-> targets,
         means      |-> [i \in 1..Len(composites) |->
                            IF i \in targets
                            THEN RemovedMean(composites[i], Column(frame.X, i)) ELSE 0],
         regressors |-> [i \in 1..Len(composites) |->
                            IF i \in targets
                            THEN BiasFixed(composites[i], Column(frame.X, i))
                            ELSE composites[i]]]

FinalizeCommon(garbage) ==
    /\ regressors_' = Aggregated.regressors
    /\ intercept_' = intercept_ + SumSeq(Aggregated.means)
    /\ selection_history_' = Truncated(selection_history_, hyper.n_estimators)
    /\ score_history_' = SqrtInPlace(score_history_, garbage)

\* line 254
IsFittedAfterFitMut == FALSE
IsFittedAfterFit == TRUE

Finalize ==
    /\ pc = "finalize"
    /\ ~CounterRaises(feature_names_in_, Truncated(selection_history_, hyper.n_estimators))
    /\ \E garbage \in GarbageOf(score_history_) : FinalizeCommon(garbage)
    /\ selection_count_' =
           Counter(feature_names_in_, Truncated(selection_history_, hyper.n_estimators))
    /\ _is_fitted' = IsFittedAfterFit
    /\ pc' = "idle"
    /\ frame' = None
    /\ ret' = <<"return">>
    /\ ghost' = [ghost EXCEPT !.outcome = "completed", !.ever_completed = TRUE,
                              !.intercept_writes = @ + 1,
                              !.fix_bias_calls = Aggregated.targets,
                              !.removed = Aggregated.means]
    /\ UNCHANGED <<alive, hyper, feature_names_in_, _random_generator,
                   _selected_count_matrix, _regressors, _indexing_cache, _m, _n,
                   last_call>>

\* line 252 raises: the names are those of an earlier fit on fewer features
FinalizeRaises ==
    /\ pc = "finalize"
    /\ CounterRaises(feature_names_in_, Truncated(selection_history_, hyper.n_estimators))
    /\ \E garbage \in GarbageOf(score_history_) : FinalizeCommon(garbage)
    /\ pc' = "idle"
    /\ frame' = None
    /\ ret' = <<"IndexError">>
    /\ ghost' = [ghost EXCEPT !.outcome = "aborted",
                              !.intercept_writes = @ + 1,
                              !.fix_bias_calls = Aggregated.targets,
                              !.removed = Aggregated.means]
    /\ UNCHANGED <<alive, hyper, feature_names_in_, _random_generator, _is_fitted,
                   selection_count_, _selected_count_matrix, _regressors,
                   _indexing_cache, _m, _n, last_call>>

-----------------------------------------------------------------------------
(* The guarded operations, lines 354-543.                                   *)

\* the guard `if not self._is_fitted: raise NotFittedError(...)`
GuardRaises(is_fitted) == ~is_fitted

RECURSIVE SumSelected(_, _, _)
SumSelected(regs, X_arr, row) ==
    IF regs = <<>> THEN 0
    ELSE LET i == Len(regs)
         IN  SumSelected(SubSeq(regs, 1, i - 1), X_arr, row)
             + (IF regs[i].is_selected THEN regs[i].leaf[X_arr[row][i]] ELSE 0)

\* lines 400-408: intercept_ + the sum of the selected regressors' predictions
PredictValue(X) ==
    LET X_arr == Transform(X, hyper.max_bins)
    IN  [row \in 1..Len(X) |-> intercept_ + SumSelected(regressors_, X_arr, row)]

\* X_arr[:, i] raises IndexError when X has fewer columns than there are regressors
ColumnMissing(X) == Width(X) < Len(regressors_)

\* lines 372-379: the matrix of len(X) rows and _n + 1 columns, the intercept first;
\* the regressors' predictions are broadcast into the other _n columns
ContributionRaises(X) ==
    \/ ColumnMissing(X)
    \/ (Len(regressors_) # _n /\ Len(regressors_) # 1)
Contribution(X) ==
    LET X_arr == Transform(X, hyper.max_bins)
    IN  [row \in 1..Len(X) |->
            <<intercept_>> \o
            [i \in 1.._n |->
                LET k == IF Len(regressors_) = _n THEN i ELSE 1
                IN  regressors_[k].leaf[X_arr[row][k]]]]

\* line 381, ["intercept"] + self.feature_names_in_: a list plus an array is numpy's
\* elementwise addition, the one-element list broadcast against the names
\* (a label is the tuple of the strings concatenated in it)
ListPlusArray(list, array) == [i \in 1..Len(array) |-> <<list[1], array[i]>>]

\* pd.DataFrame(contribution, columns=labels): the labels must number the columns
DataFrameRaises(matrix, labels) == Len(labels) # Len(matrix[1])

Called(op, X) ==
    /\ alive /\ pc = "idle"
    /\ last_call' = op
    /\ ghost' = [ghost EXCEPT !.query = X]
    /\ UNCHANGED <<alive, instance_vars, pc, frame>>

Predict(X) ==
    /\ Called("predict", <<X>>)
    /\ ret' = IF GuardRaises(_is_fitted) THEN <<"NotFittedError">>
              ELSE IF ColumnMissing(X) THEN <<"IndexError">>
              ELSE <<"return", PredictValue(X)>>

\* line 380 raises ValueError when the labels do not number the columns (numpy 2
\* concatenates name by name at line 381; an older numpy raises TypeError there instead)
ContributionFrame(X) ==
    /\ Called("contribution_frame", <<X>>)
    /\ ret' = IF GuardRaises(_is_fitted) THEN <<"NotFittedError">>
              ELSE IF ColumnMissing(X) THEN <<"IndexError">>
              ELSE IF ContributionRaises(X) THEN <<"ValueError">>
              ELSE IF DataFrameRaises(Contribution(X),
                                      ListPlusArray(<<"intercept">>, feature_names_in_))
                   THEN <<"ValueError">>
                   ELSE <<"return", Contribution(X),
                          ListPlusArray(<<"intercept">>, feature_names_in_)>>

\* explain and plot_model_information: the guard, then rendering only
Explain(X) ==
    /\ Called("explain", <<X>>)
    /\ ret' = IF GuardRaises(_is_fitted) THEN <<"NotFittedError">> ELSE <<"return">>

PlotModelInformation ==
    /\ Called("plot_model_information", <<>>)
    /\ ret' = IF GuardRaises(_is_fitted) THEN <<"NotFittedError">> ELSE <<"return">>

\* the inputs a call may be given: as many columns as the model has regressors
Queries == QueryInputs(IF _is_fitted THEN Len(regressors_) ELSE 1)

-----------------------------------------------------------------------------
(* A second model, constructed with the arguments of the first once the      *)
(* first has been fitted, to be fitted on the same data: what the first     *)
(* model ended with is kept for the comparison.                             *)

SecondModel(entropy) ==
    /\ alive /\ pc = "idle"
    /\ ghost.twin = <<>> /\ ghost.fits_begun = 1 /\ ghost.outcome = "completed"
    /\ LET new == NewInstance(ghost.args[1], entropy)
       IN  /\ hyper' = new.hyper
           /\ feature_names_in_' = new.feature_names_in_
           /\ _random_generator' = new.random_generator
           /\ _is_fitted' = new.is_fitted
           /\ selection_history_' = new.selection_history_
           /\ score_history_' = new.score_history_
           /\ selection_count_' = None /\ regressors_' = None /\ intercept_' = None
           /\ _selected_count_matrix' = None /\ _regressors' = None
           /\ _indexing_cache' = None /\ _m' = None /\ _n' = None
    /\ last_call' = "__init__"
    /\ ret' = <<"return">>
    /\ ghost' = [NoGhost EXCEPT
                    !.args = ghost.args,
                    !.twin = <<[data |-> ghost.data[1],
                                selection_history |-> selection_history_,
                                score_history |-> score_history_,
                                rounds |-> Len(ghost.rounds),
                                prediction |-> PredictValue(ghost.data[1].X)]>>]
    /\ UNCHANGED <<alive, pc, frame>>

-----------------------------------------------------------------------------
(* The specifications.                                                      *)

\* construction alone: no instance yet, then one constructor call
InitConfig ==
    /\ NoInstance
    /\ last_call = "none" /\ ret = <<>>
    /\ ghost = NoGhost

NextConfig ==
    /\ ghost.args = <<>>
    /\ \E args \in WideArgs, entropy \in EntropySeeds : Construct(args, entropy)

SpecConfig == InitConfig /\ [][NextConfig]_vars

\* a constructed instance and the calls made on it
Init == \E args \in MainArgs, entropy \in EntropySeeds : InitInstance(args, entropy, 1)

Next ==
    \/ \E data \in Datasets :
         \E offset \in SplitOffsets(hyper.random_state, Len(data.X)) : FitBegin(data, offset)
    \/ \E data \in Datasets :
         \E offset \in SplitOffsets(hyper.random_state, Len(data.X)) :
            FitBeginRaises(data, offset)
    \/ BoostRound
    \/ \E in_learner \in BOOLEAN : BoostRaises(in_learner)
    \/ Finalize
    \/ \E X \in Queries : Predict(X)
    \/ \E X \in Queries : ContributionFrame(X)
    \/ \E X \in Queries : Explain(X)
    \/ PlotModelInformation
    \/ \E entropy \in EntropySeeds : SecondModel(entropy)

Spec == Init /\ [][Next]_vars

\* a constructed instance and the first two fit calls made on it
InitRefit == \E args \in RefitArgs, entropy \in EntropySeeds : InitInstance(args, entropy, 2)

NextRefit ==
    \/ \E data \in Datasets :
         \E offset \in SplitOffsets(hyper.random_state, Len(data.X)) : FitBegin(data, offset)
    \/ \E data \in Datasets :
         \E offset \in SplitOffsets(hyper.random_state, Len(data.X)) :
            FitBeginRaises(data, offset)
    \/ BoostRound
    \/ \E in_learner \in BOOLEAN : BoostRaises(in_learner)
    \/ Finalize
    \/ FinalizeRaises
    \/ \E X \in Queries : Predict(X)
    \/ \E X \in Queries : ContributionFrame(X)
    \/ \E X \in Queries : Explain(X)
    \/ PlotModelInformation

SpecRefit == InitRefit /\ [][NextRefit]_vars

-----------------------------------------------------------------------------
(* What the properties read.                                                *)

\* the rounds the running (or last) fit call has executed
RoundsRun == Len(ghost.rounds)
\* the mean squared validation error round t recorded, before any square root
ValidationMSE(t) == ghost.rounds[t + 1].scores[2]
\* the validation errors of the k rounds ending at round t never fall
NonDecreasingWindow(t, k) ==
    \A u \in (t - k + 1)..(t - 1) : ValidationMSE(u) <= ValidationMSE(u + 1)

-----------------------------------------------------------------------------
(* C1.  Early-stopping law: with n_iter_no_change = k and n_estimators = N,  *)
(* if the validation errors recorded for the k rounds t-k+1..t (k <= t < N) *)
(* never fall from one round to the next, fit stops right after round t:    *)
(* round t is the last one executed and the loop does not go on.            *)
C1_StopsAfterWindowEndingAtT ==
    \A t \in hyper.n_iter_no_change..(ghost.n_start - 1) :
        (RoundsRun > t /\ NonDecreasingWindow(t, hyper.n_iter_no_change))
            => (RoundsRun = t + 1 /\ pc # "boost")

-----------------------------------------------------------------------------
(* C2.  predict, contribution_frame, explain and plot_model_information,     *)
(* called on an instance on which no fit call has run to completion, raise  *)
(* NotFittedError and change nothing of the instance; once a fit call has   *)
(* completed they no longer raise it.                                       *)
GuardedOps == {"predict", "contribution_frame", "explain", "plot_model_information"}

C2_GuardedUntilFitted ==
    [][last_call' \in GuardedOps =>
          IF ghost.ever_completed
          THEN ret'[1] # "NotFittedError"
          ELSE ret' = <<"NotFittedError">> /\ UNCHANGED instance_vars]_vars

\* predict was refused on an instance whose only fit call was aborted
C2_Witness ==
    /\ last_call = "predict" /\ ret = <<"NotFittedError">>
    /\ ghost.outcome = "aborted" /\ ~ghost.ever_completed

-----------------------------------------------------------------------------
(* C3.  Decomposition law: for a fitted model and any input X, predict(X)   *)
(* equals, row by row, the intercept column of contribution_frame(X) plus   *)
(* the columns of the selected features, and the column of every unselected *)
(* feature is zero.                                                         *)
C3_Decomposition ==
    (last_call = "contribution_frame" /\ _is_fitted) =>
        /\ ret[1] = "return"
        /\ LET X     == ghost.query[1]
               table == ret[2]
           IN  \A row \in 1..Len(X) :
                  /\ PredictValue(X)[row] =
                        table[row][1]
                        + SumSeq([i \in 1.._n |->
                                     IF regressors_[i].is_selected
                                     THEN table[row][i + 1] ELSE 0])
                  /\ \A i \in 1.._n : ~regressors_[i].is_selected => table[row][i + 1] = 0

-----------------------------------------------------------------------------
(* C4.  For a fitted model with n features contribution_frame(X) returns a  *)
(* table of n+1 columns labelled intercept, feature_1 .. feature_n, one row *)
(* per row of X, the first column the intercept and column f+1 the          *)
(* composite of feature f evaluated on X.                                   *)
C4_FrameShape ==
    (last_call = "contribution_frame" /\ _is_fitted) =>
        /\ ret[1] = "return"
        /\ LET X      == ghost.query[1]
               X_arr  == Transform(X, hyper.max_bins)
               table  == ret[2]
               labels == ret[3]
           IN  /\ Len(labels) = _n + 1
               /\ \A c \in 1..(_n + 1) :
                     labels[c] = IF c = 1 THEN <<"intercept">>
                                 ELSE <<feature_names_in_[c - 1]>>
               /\ Len(table) = Len(X)
               /\ \A row \in 1..Len(X) :
                     /\ Len(table[row]) = _n + 1
                     /\ table[row][1] = intercept_
                     /\ \A f \in 1.._n :
                           table[row][f + 1] = regressors_[f].leaf[X_arr[row][f]]

-----------------------------------------------------------------------------
(* C5.  Determinism: two freshly constructed models with identical          *)
(* configuration and random_state (the unset default included), fitted once *)
(* on identical data, end with identical SelectionHistory, ScoreHistory and *)
(* predictions.                                                             *)
BothFittedOnce ==
    /\ ghost.twin # <<>>
    /\ pc = "idle" /\ ghost.fits_begun = 1 /\ ghost.outcome = "completed"

C5_Determinism ==
    BothFittedOnce =>
        /\ selection_history_ = ghost.twin[1].selection_history
        /\ score_history_ = ghost.twin[1].score_history
        /\ PredictValue(ghost.data[1].X) = ghost.twin[1].prediction

\* C5 as amended: with a random_state that is set, the two models end with identical
\* SelectionHistory, identical ScoreHistory rows of the rounds executed, and identical
\* predictions.
C5_DeterminismSeeded ==
    (BothFittedOnce /\ hyper.random_state # None) =>
        /\ selection_history_ = ghost.twin[1].selection_history
        /\ RoundsRun = ghost.twin[1].rounds
        /\ Take(score_history_, RoundsRun) = Take(ghost.twin[1].score_history, RoundsRun)
        /\ PredictValue(ghost.data[1].X) = ghost.twin[1].prediction

\* two seeded models were fitted on a split of the data, each for at least two rounds
C5_Witness ==
    /\ BothFittedOnce /\ hyper.random_state # None
    /\ ghost.data[1].validation_set = None
    /\ RoundsRun >= 2

-----------------------------------------------------------------------------
(* C6.  After a completed fit every value of ScoreHistory is non-negative   *)
(* and is the square root of the mean squared training (column 0) or        *)
(* validation (column 1) residual of the round its row stands for, and      *)
(* ScoreHistory has no row that stands for no executed round.               *)
C6_ScoreHistoryIsRMSE ==
    (pc = "idle" /\ ghost.outcome = "completed") =>
        /\ Len(score_history_) = RoundsRun
        /\ \A t \in 1..Len(score_history_), c \in 1..2 :
              /\ score_history_[t][c] # NaN
              /\ score_history_[t][c] >= 0
              /\ score_history_[t][c] = Sqrt(ghost.rounds[t].scores[c])

-----------------------------------------------------------------------------
(* C7.  The SelectedCountMatrix is symmetric with an all-zero diagonal when *)
(* it is created, after the count update of every round and after every    *)
(* completed fit.                                                           *)
C7_CountMatrixSymmetric ==
    _selected_count_matrix # None =>
        \A i \in 1..Len(_selected_count_matrix), j \in 1..Len(_selected_count_matrix) :
            /\ _selected_count_matrix[i][j] = _selected_count_matrix[j][i]
            /\ _selected_count_matrix[i][i] = 0

\* both features were selected, so entries off the diagonal were raised twice
C7_Witness ==
    /\ ghost.outcome = "completed"
    /\ \E t, u \in 1..RoundsRun : ghost.rounds[t].feature # ghost.rounds[u].feature
    /\ _selected_count_matrix[1][2] >= 2

-----------------------------------------------------------------------------
(* C8.  After a completed fit of R rounds, 1 <= R <= n_estimators as         *)
(* configured at construction, SelectionHistory has exactly R entries,      *)
(* entry t is the feature round t chose, and no later round and no          *)
(* finalization changes an entry written earlier.                           *)
ConfiguredEstimators == IntConverter(ghost.args[1].n_estimators)

C8_SelectionHistory ==
    /\ ghost.outcome \in {"running", "completed"} =>
          \A t \in 1..RoundsRun :
              /\ t <= Len(selection_history_)
              /\ selection_history_[t] = ghost.rounds[t].feature
    /\ (pc = "idle" /\ ghost.outcome = "completed") =>
          /\ Len(selection_history_) = RoundsRun
          /\ 1 <= RoundsRun /\ RoundsRun <= ConfiguredEstimators

\* a second fit on the instance completed with fewer rounds than configured at
\* construction, an earlier fit having stopped early
C8_Witness ==
    /\ pc = "idle" /\ ghost.outcome = "completed" /\ ghost.fits_begun = 2
    /\ RoundsRun >= 2
    /\ ghost.n_start < ConfiguredEstimators
    /\ Len(selection_history_) = RoundsRun

-----------------------------------------------------------------------------
(* C9.  A constructor call with a hyperparameter outside its range          *)
(* (n_estimators < 1, learning_rate, row_subsample or validation_fraction   *)
(* outside (0, 1], n_iter_no_change < 1, max_bins <= 0, max_depth < 1,      *)
(* l2_regularization <= 0, min_samples_split < 2, min_samples_leaf < 1)     *)
(* fails with a configuration error and leaves no instance; every in-range  *)
(* combination constructs an unfitted instance.  (Arguments in quarters.)   *)
OutsideClaimedRange(a) ==
    \/ a.n_estimators < 4
    \/ a.learning_rate <= 0 \/ a.learning_rate > 4
    \/ a.row_subsample <= 0 \/ a.row_subsample > 4
    \/ a.validation_fraction <= 0 \/ a.validation_fraction > 4
    \/ a.n_iter_no_change < 4
    \/ a.max_bins <= 0
    \/ a.max_depth < 4
    \/ a.l2_regularization <= 0
    \/ a.min_samples_split < 8
    \/ a.min_samples_leaf < 4

Rejected == ~alive /\ ret = <<"ValueError">>
ConstructedUnfitted == alive /\ ret = <<"return">> /\ ~_is_fitted /\ pc = "idle"

-----------------------------------------------------------------------------
(* C10.  fit is atomic: when a collaborator fails in a round the failure    *)
(* leaves fit with no further round, and after the aborted call the         *)
(* instance is not fitted (predict and contribution_frame raise             *)
(* NotFittedError), also when an earlier fit on the instance had completed. *)
C10_AbortedFitLeavesUnfitted ==
    (pc = "idle" /\ ghost.outcome = "aborted") =>
        /\ ~_is_fitted
        /\ last_call \in {"predict", "contribution_frame"} => ret = <<"NotFittedError">>

-----------------------------------------------------------------------------
(* C11.  With a single input feature every round of every fit selects       *)
(* feature 0 (numbered 1 here) and the SelectedCountMatrix is [[0.0]] after *)
(* every round.                                                             *)
SingleFeature == _selected_count_matrix # None /\ Len(_selected_count_matrix) = 1

C11_SingleFeatureBoundary ==
    (SingleFeature /\ ghost.outcome \in {"running", "completed"}) =>
        /\ _selected_count_matrix = << <<0>> >>
        /\ \A t \in 1..RoundsRun :
              ghost.rounds[t].feature = 1 /\ selection_history_[t] = 1

\* three rounds have run on one feature and a fourth is to come
C11_Witness ==
    /\ SingleFeature /\ pc = "boost"
    /\ RoundsRun = 3

-----------------------------------------------------------------------------
(* C12.  In each round the training row at position i of the original row  *)
(* order is passed to the weak learner's fit iff the i-th value of the      *)
(* round's random draw is <= row_subsample.                                 *)
RowsPassed(round) == {round.fit_rows[j] : j \in 1..Len(round.fit_rows)}
DrawnPositions(round) == {i \in 1..Len(round.draw) : round.draw[i] <= hyper.row_subsample}

C12_MaskOverOriginalOrder ==
    \A t \in 1..RoundsRun :
        RowsPassed(ghost.rounds[t]) = DrawnPositions(ghost.rounds[t])

\* C12 as amended: the training row at position j of the order sorted by the selected
\* feature (row index[j] of the original order) is passed to the weak learner's fit iff
\* the j-th value of the round's draw is <= row_subsample.
C12_MaskOverSortedOrder ==
    \A t \in 1..RoundsRun :
        LET round == ghost.rounds[t]
        IN  /\ Len(round.index) = Len(round.draw)
            /\ \A j \in 1..Len(round.draw) :
                  round.index[j] \in RowsPassed(round) <=> j \in DrawnPositions(round)

\* a round whose sorted order is not the row order passed rows other than those at
\* the positions drawn
C12_Witness ==
    \E t \in 1..RoundsRun :
        /\ RowsPassed(ghost.rounds[t]) # DrawnPositions(ghost.rounds[t])
        /\ RowsPassed(ghost.rounds[t]) # {}

-----------------------------------------------------------------------------
(* C13.  Round 0 selects with a redundancy of 0.0; in every round t >= 1    *)
(* the redundancy of feature i is (sum over j of R[i][j] * C[i][j]) / t,    *)
(* with R the static redundancy matrix and C the SelectedCountMatrix as     *)
(* rounds 0..t-1 left it; the selected feature is the first index attaining *)
(* the maximum of combine(relevancy, redundancy).                           *)
FitRunning == pc \in {"boost", "finalize"}

\* the redundancy of feature i in round t, by the claimed formula
ClaimedRedundancy(round, t, i) ==
    IF t = 0 THEN 0
    ELSE LET R == RedundancyMatrix(frame.X)
         IN  SumSeq([j \in 1..Len(R) |-> R[i][j] * round.count_in[i][j]]) \div t

FirstMaximum(score, f) ==
    /\ \A g \in 1..Len(score) : score[g] <= score[f]
    /\ \A g \in 1..(f - 1) : score[g] < score[f]

C13_RedundancyAndSelection ==
    FitRunning =>
        \A t \in 0..(RoundsRun - 1) :
            LET round == ghost.rounds[t + 1]
            IN  /\ \A i \in 1..Len(round.redundancy) :
                      round.redundancy[i] = ClaimedRedundancy(round, t, i)
                /\ round.count_in =
                      IF t = 0 THEN Zeros(Len(round.redundancy))
                      ELSE CountUpdate(ghost.rounds[t].count_in, ghost.rounds[t].feature)
                /\ FirstMaximum([i \in 1..Len(round.relevancy) |->
                                    round.relevancy[i] - round.redundancy[i]],
                                round.feature)

\* the redundancy moved the choice of a round away from the most relevant feature,
\* and a round t >= 2 had a redundancy to divide
C13_Witness ==
    /\ FitRunning
    /\ \E t \in 1..(RoundsRun - 1) :
          ~FirstMaximum(ghost.rounds[t + 1].relevancy, ghost.rounds[t + 1].feature)
    /\ \E t \in 2..(RoundsRun - 1) :
          \E i \in 1..Len(ghost.rounds[t + 1].redundancy) :
              ghost.rounds[t + 1].redundancy[i] > 0

-----------------------------------------------------------------------------
(* C14.  Within one fit call the square root is applied to ScoreHistory     *)
(* exactly once and only after the last round: while the loop runs the rows *)
(* of the rounds executed hold the raw mean squared errors (what the        *)
(* early-stopping test reads), and once fit has returned they hold their    *)
(* square roots, taken once.                                                *)
C14_SquareRootOnceAfterLoop ==
    \A t \in 1..RoundsRun, c \in 1..2 :
        /\ FitRunning => score_history_[t][c] = ghost.rounds[t].scores[c]
        /\ (pc = "idle" /\ ghost.outcome = "completed") =>
              score_history_[t][c] = Sqrt(ghost.rounds[t].scores[c])

\* a second fit on the instance, which began with the square roots the first fit left,
\* completed after an early-stopping test, with an error whose root is not its square
C14_Witness ==
    /\ pc = "idle" /\ ghost.outcome = "completed" /\ ghost.fits_begun = 2
    /\ RoundsRun >= 2 /\ RoundsRun >= hyper.n_iter_no_change + 1
    /\ \E t \in 1..RoundsRun :
          /\ ghost.rounds[t].scores[2] >= 4
          /\ Sqrt(Sqrt(ghost.rounds[t].scores[2])) # Sqrt(ghost.rounds[t].scores[2])

-----------------------------------------------------------------------------
(* C15.  Early stopping is never evaluated at a round t < n_iter_no_change: *)
(* every fit executes at least min(n_estimators, n_iter_no_change + 1)      *)
(* rounds whatever the validation errors are, and round 0 never triggers a  *)
(* stop.                                                                    *)
LoopOver == pc = "finalize" \/ (pc = "idle" /\ ghost.outcome = "completed")
Smaller(a, b) == IF a < b THEN a ELSE b

C15_NoStopBeforeWindowFills ==
    LoopOver =>
        /\ RoundsRun >= Smaller(ghost.n_start, hyper.n_iter_no_change + 1)
        /\ RoundsRun < ghost.n_start => RoundsRun >= 2

\* with n_iter_no_change = 2 the validation error did not fall from round 0 to round 1
\* and round 2 was run all the same
C15_Witness ==
    /\ LoopOver
    /\ hyper.n_iter_no_change = 2
    /\ RoundsRun >= 3
    /\ ValidationMSE(0) <= ValidationMSE(1)

-----------------------------------------------------------------------------
(* C16.  Finalization applies fix_bias exactly once to the composite of     *)
(* each feature whose learner list is non-empty and to no feature whose     *)
(* learner list is empty; the intercept is written exactly twice per fit    *)
(* (target mean, then one bias correction) and ends as the training-target  *)
(* mean plus the sum of the means removed from the selected features'       *)
(* composites.                                                              *)
FitCompleted == pc = "idle" /\ ghost.outcome = "completed"
FeaturesWithLearners == {i \in 1..Len(_regressors) : _regressors[i] # <<>>}
CompositesBuilt == 1..Smaller(Len(_regressors), Len(feature_names_in_))

C16_BiasFixedOnSelectedOnly ==
    FitCompleted =>
        /\ ghost.fix_bias_calls = FeaturesWithLearners
        /\ ghost.intercept_writes = 2
        /\ intercept_ = ghost.target_mean
                        + SumSeq([i \in 1..Len(ghost.removed) |->
                                     IF i \in FeaturesWithLearners
                                     THEN ghost.removed[i] ELSE 0])

\* C16 as amended: finalization applies fix_bias exactly once to every composite it
\* built (one per feature, as far as the feature names reach), whether the learner
\* list is empty or not; the intercept is written exactly twice per fit and ends as
\* the training-target mean plus the sum of the means fix_bias returned.
C16_BiasFixedOnEveryComposite ==
    FitCompleted =>
        /\ ghost.fix_bias_calls = CompositesBuilt
        /\ Len(regressors_) = Cardinality(CompositesBuilt)
        /\ \A i \in CompositesBuilt :
              \A b \in DOMAIN regressors_[i].leaf :
                  regressors_[i].leaf[b] = SumLeaves(_regressors[i], b) - ghost.removed[i]
        /\ ghost.intercept_writes = 2
        /\ intercept_ = ghost.target_mean + SumSeq(ghost.removed)

\* a fit completed with a feature never selected, whose composite fix_bias was called
\* on all the same, and with a mean removed from a selected one
C16_Witness ==
    /\ FitCompleted
    /\ \E i \in ghost.fix_bias_calls : _regressors[i] = <<>>
    /\ \E i \in ghost.fix_bias_calls : _regressors[i] # <<>> /\ ghost.removed[i] # 0

-----------------------------------------------------------------------------
(* C17.  At every round boundary the training residual of each row is the   *)
(* target minus the initial intercept (the training-target mean) minus the  *)
(* sum of the predictions, on that row's feature values, of every weak      *)
(* learner appended so far; the validation residual satisfies the same       *)
(* equation with the same intercept; and the relevancy of round t is        *)
(* computed on this residual as rounds 0..t-1 left it.                      *)

\* what all the learners appended so far predict for one row
PredictedSoFar(row) ==
    SumSeq([f \in 1..Len(_regressors) |-> SumLeaves(_regressors[f], row[f])])

C17_ResidualEquation ==
    FitRunning =>
        /\ \A i \in 1..Len(frame.y) :
              frame.residual[i] = frame.y[i] - ghost.target_mean - PredictedSoFar(frame.X[i])
        /\ \A i \in 1..Len(frame.y_val) :
              frame.residual_valid[i] =
                  frame.y_val[i] - ghost.target_mean - PredictedSoFar(frame.X_val[i])
        /\ intercept_ = ghost.target_mean /\ ghost.target_mean = Mean(frame.y)
        /\ \A t \in 1..RoundsRun :
              /\ ghost.rounds[t].relevancy =
                    RelevancyScorer(frame.X, ghost.rounds[t].residual_in)
              /\ t = 1 => ghost.rounds[t].residual_in =
                             [i \in 1..Len(frame.y) |-> frame.y[i] - ghost.target_mean]

\* three rounds have run, on more than one feature, and a learner predicted something
C17_Witness ==
    /\ FitRunning /\ RoundsRun >= 3
    /\ Cardinality({f \in 1..Len(_regressors) : _regressors[f] # <<>>}) >= 2
    /\ \E i \in 1..Len(frame.y) : PredictedSoFar(frame.X[i]) # 0
    /\ \E i \in 1..Len(frame.y_val) : PredictedSoFar(frame.X_val[i]) # 0

-----------------------------------------------------------------------------
(* C18.  In every round the feature values handed to the weak learner's fit *)
(* are in ascending order, and the residual handed at each position is that *)
(* of the training row the feature value at that position comes from.       *)
C18_SortedAndPaired ==
    FitRunning =>
        \A t \in 1..RoundsRun :
            LET round == ghost.rounds[t]
            IN  /\ Len(round.fit_X) = Len(round.fit_y)
                /\ Len(round.fit_X) = Len(round.fit_rows)
                /\ \A j \in 1..(Len(round.fit_X) - 1) : round.fit_X[j] <= round.fit_X[j + 1]
                /\ \A j \in 1..Len(round.fit_X) :
                      /\ round.fit_X[j] = frame.X[round.fit_rows[j]][round.feature]
                      /\ round.fit_y[j] = round.residual_in[round.fit_rows[j]]
                /\ \A j, k \in 1..Len(round.fit_rows) :
                      round.fit_rows[j] = round.fit_rows[k] => j = k

\* a round handed over rows out of their original order, with unequal feature values
\* and unequal residuals, after the subsample had dropped a row
C18_Witness ==
    /\ FitRunning
    /\ \E t \in 1..RoundsRun :
          LET round == ghost.rounds[t]
          IN  /\ Len(round.fit_X) >= 2 /\ Len(round.fit_X) < Len(round.draw)
              /\ round.fit_X[1] < round.fit_X[Len(round.fit_X)]
              /\ \E j \in 1..(Len(round.fit_rows) - 1) :
                    round.fit_rows[j] > round.fit_rows[j + 1]
              /\ \E j, k \in 1..Len(round.fit_y) : round.fit_y[j] # round.fit_y[k]

-----------------------------------------------------------------------------
(* C19.  The generator is advanced by exactly one draw of m values in each  *)
(* executed round, in round order, and by nothing else during fit: after a  *)
(* fit of R rounds exactly R draws have been issued, and the draw of a      *)
(* round comes after the round's feature selection and before its           *)
(* weak-learner fit.                                                        *)
DrawsIssued == _random_generator.draws - ghost.draws_start

\* one draw per executed round, in round order, each of m values
OneDrawPerRound ==
    ghost.outcome \in {"running", "completed"} =>
        /\ DrawsIssued = RoundsRun
        /\ \A t \in 1..RoundsRun :
              /\ ghost.rounds[t].draw_index = ghost.draws_start + t - 1
              /\ Len(ghost.rounds[t].draw) = _m

\* a round that fails: if it drew, it had selected its feature (the selection is in
\* the history and the feature's index is cached) and its learner is not appended;
\* if it had not selected, it did not draw
DrawBetweenSelectionAndLearner ==
    (pc = "boost" /\ pc' = "idle") =>
        /\ UNCHANGED _regressors
        /\ IF _random_generator' # _random_generator
           THEN /\ _random_generator'.draws = _random_generator.draws + 1
                /\ selection_history_'[frame.model_count + 1] \in 1.._n
                /\ _indexing_cache'[selection_history_'[frame.model_count + 1]] # None
           ELSE UNCHANGED <<selection_history_, _indexing_cache>>

\* no step other than a round moves the generator
OnlyRoundsDraw == pc # "boost" => UNCHANGED _random_generator

C19_OneDrawPerRound ==
    /\ []OneDrawPerRound
    /\ [][DrawBetweenSelectionAndLearner /\ OnlyRoundsDraw]_vars

\* a second fit on the instance completed three rounds, its draws following those of
\* the first fit
C19_Witness ==
    /\ pc = "idle" /\ ghost.outcome = "completed" /\ ghost.fits_begun = 2
    /\ ghost.draws_start >= 2
    /\ RoundsRun = 3 /\ DrawsIssued = 3

-----------------------------------------------------------------------------
(* C20.  Within one fit each IndexCache slot is computed at most once, on   *)
(* the first round that selects the feature, and never overwritten; every   *)
(* later lookup for the feature returns that permutation; the slots of      *)
(* features never selected stay empty; and every fit call starts from       *)
(* empty slots, so no permutation is reused across fits.                    *)
SelectedSoFar == {ghost.rounds[t].feature : t \in 1..RoundsRun}

\* the filled slots are those of the features selected, and each round used the
\* permutation its feature's slot holds
CacheHoldsWhatRoundsUsed ==
    ghost.outcome \in {"running", "completed"} =>
        /\ \A f \in 1..Len(_indexing_cache) :
              _indexing_cache[f] # None <=> f \in SelectedSoFar
        /\ \A t \in 1..RoundsRun :
              ghost.rounds[t].index = _indexing_cache[ghost.rounds[t].feature]

\* a round fills at most the slot of its feature and overwrites none
RoundKeepsFilledSlots ==
    pc = "boost" =>
        /\ Len(_indexing_cache') = Len(_indexing_cache)
        /\ \A f \in 1..Len(_indexing_cache) :
              _indexing_cache[f] # None => _indexing_cache'[f] = _indexing_cache[f]

\* a fit call that reaches its first round starts it with every slot empty
FitStartsWithEmptySlots ==
    (pc = "idle" /\ pc' = "boost") =>
        /\ Len(_indexing_cache') = _n'
        /\ \A f \in 1..Len(_indexing_cache') : _indexing_cache'[f] = None

C20_IndexCache ==
    /\ []CacheHoldsWhatRoundsUsed
    /\ [][RoundKeepsFilledSlots /\ FitStartsWithEmptySlots]_vars

\* in a second fit on the instance a feature was selected again and a feature was
\* never selected
C20_Witness ==
    /\ ghost.outcome = "running" /\ ghost.fits_begun = 2
    /\ \E t, u \in 1..RoundsRun : t # u /\ ghost.rounds[t].feature = ghost.rounds[u].feature
    /\ \E f \in 1..Len(_indexing_cache) : _indexing_cache[f] = None

-----------------------------------------------------------------------------
(* C21.  After any sequence of rounds every off-diagonal entry (i, j) of    *)
(* the SelectedCountMatrix is the number of rounds that selected feature i  *)
(* plus the number of rounds that selected feature j (not the number of     *)
(* times i and j were selected together), and the sum of all entries is     *)
(* 2 * (n - 1) * rounds completed.                                          *)
RoundsSelecting(f) == Cardinality({t \in 1..RoundsRun : ghost.rounds[t].feature = f})

C21_CountMatrixEntries ==
    ghost.outcome \in {"running", "completed"} =>
        LET C == _selected_count_matrix
            n == Len(C)
        IN  /\ \A i, j \in 1..n :
                  i # j => C[i][j] = RoundsSelecting(i) + RoundsSelecting(j)
            /\ SumSeq([i \in 1..n |-> SumSeq(C[i])]) = 2 * (n - 1) * RoundsRun

\* of three features one was selected in two rounds and another in none, and their
\* entry is 2
C21_Witness ==
    /\ ghost.outcome \in {"running", "completed"}
    /\ Len(_selected_count_matrix) = 3
    /\ RoundsRun >= 3
    /\ \E i, j \in 1..3 :
          /\ i # j /\ RoundsSelecting(i) = 2 /\ RoundsSelecting(j) = 0
          /\ _selected_count_matrix[i][j] = 2

-----------------------------------------------------------------------------
(* C22.  At every round boundary the length of each feature's weak-learner  *)
(* list is the number of occurrences of the feature in SelectionHistory so  *)
(* far, so the lengths add up to the number of rounds completed; after fit  *)
(* a feature is selected iff it occurs in SelectionHistory, and the         *)
(* selection counts add up to the number of rounds run.                     *)
OccurrencesSoFar(f) ==
    Cardinality({t \in 1..RoundsRun : t <= Len(selection_history_) /\ selection_history_[t] = f})
LearnerCounts == [f \in 1..Len(_regressors) |-> Len(_regressors[f])]
IsSelected(f) == f <= Len(regressors_) /\ regressors_[f].is_selected
SelectionCountTotal ==
    Cardinality({p \in (DOMAIN selection_count_) \X (1..Len(selection_history_)) :
                    p[2] <= selection_count_[p[1]]})

C22_ListsFollowHistory ==
    /\ ghost.outcome \in {"running", "completed"} =>
          /\ \A f \in 1..Len(_regressors) : LearnerCounts[f] = OccurrencesSoFar(f)
          /\ SumSeq(LearnerCounts) = RoundsRun
    /\ FitCompleted =>
          /\ \A f \in 1.._n :
                IsSelected(f) <=> \E t \in 1..Len(selection_history_) : selection_history_[t] = f
          /\ SelectionCountTotal = RoundsRun

\* a second fit on three features has completed: one feature holds two learners,
\* another holds one, the third was never selected
C22_Witness ==
    /\ FitCompleted
    /\ ghost.fit_calls = 2
    /\ _n = 3
    /\ \E f, g, h \in 1..3 :
          /\ LearnerCounts[f] = 2 /\ LearnerCounts[g] = 1 /\ LearnerCounts[h] = 0
          /\ IsSelected(f) /\ IsSelected(g) /\ ~IsSelected(h)

-----------------------------------------------------------------------------
(* C23.  fit changes the n_estimators option only when early stopping fires *)
(* at round t, and then overwrites it with t + 1; otherwise n_estimators    *)
(* and every other numeric hyperparameter are left as they were.  In both   *)
(* cases n_estimators after fit is the number of rounds executed and the    *)
(* length of SelectionHistory.                                              *)
OtherHyperparameters == DOMAIN hyper \ {"n_estimators"}

\* the step completes round frame.model_count and the test of lines 290-294 succeeds
EarlyStopFires ==
    /\ pc = "boost"
    /\ Len(ghost.rounds') = RoundsRun + 1
    /\ frame.model_count >= 1
    /\ NoImprovement(score_history_', frame.model_count, hyper.n_iter_no_change)

FitWritesEstimators ==
    /\ \A k \in OtherHyperparameters : hyper'[k] = hyper[k]
    /\ IF EarlyStopFires
       THEN hyper'.n_estimators = frame.model_count + 1
       ELSE hyper'.n_estimators = hyper.n_estimators

EstimatorsAreRoundsRun ==
    FitCompleted =>
        /\ hyper.n_estimators = RoundsRun
        /\ hyper.n_estimators = Len(selection_history_)

C23_EstimatorsAfterFit == [][FitWritesEstimators]_vars /\ []EstimatorsAreRoundsRun

\* a fit stopped early and completed: the option is below what the fit started with
C23_Witness ==
    /\ FitCompleted
    /\ hyper.n_estimators < ghost.n_start
    /\ hyper.n_estimators = RoundsRun
    /\ RoundsRun >= 2

=============================================================================
